---- MODULE Spec2Model ----
(***************************************************************************)
(* Dataset consistency engine of the Akhbaar news dataset scripts:         *)
(*   scripts/process_dataset.py      ensure_unique_ids, process_images     *)
(*   scripts/generate_news_images.py main                                  *)
(*   scripts/agent_image_helper.py   update_json                           *)
(*                                                                         *)
(* The dataset tree is a map from JSON file paths (relative to the dataset *)
(* root) to lists of records, plus the set of asset files that exist       *)
(* under the dataset root.  A record is a function from the keys it        *)
(* carries to strings, as a JSON object is.  List indices are 1-based      *)
(* here and 0-based in the Python source.                                  *)
(***************************************************************************)
EXTENDS Naturals, Sequences, FiniteSets, TLC

(***************************************************************************)
(* Bounds of the model.                                                    *)
(***************************************************************************)
\* Total number of records in the dataset tree a resolver pass starts on.
MaxRecords == 3
\* Total number of records in the dataset tree process_images starts on.
MaxSyncRecords == 2

(***************************************************************************)
(* The universe: dataset files, identifiers.                               *)
(***************************************************************************)
\* One file in the dataset root and two files of the same base name in two
\* sub-directories (glob is recursive).
RootFiles == {"b.json"}
SubFiles  == {"s1/a.json", "s2/a.json"}
Files     == RootFiles \cup SubFiles

\* Identifiers already present in the tree; two of them differ only in case.
\* The upper-case spelling occurs in the root file only.
TreeIds == {"ab12", "AB12"}
TreeIdsOf(f) == IF f \in RootFiles THEN TreeIds ELSE {"ab12"}
\* Values generate_short_id can return (lower-case hexadecimal tokens).  One
\* of them equals an identifier of the tree, so the re-draw loop has work.
ShortIds == {"ab12", "c0de", "f00d"}
\* Those of them process_images draws when it mints an id: one that an
\* identifier of the tree already has, one that none has.
MintIds == {"ab12", "c0de"}

\* str.lower() on the identifiers of this universe.
Lower(s) == IF s = "AB12" THEN "ab12" ELSE s

\* os.path.basename on the file paths of this universe.
Basename(f) ==
    CASE f = "b.json"    -> "b.json"
      [] f = "s1/a.json" -> "a.json"
      [] f = "s2/a.json" -> "a.json"
      [] f = "a.json"    -> "a.json"

\* os.path.splitext(name)[0] on the base names of this universe.
SplitextStem(name) ==
    CASE name = "a.json" -> "a"
      [] name = "b.json" -> "b"

\* Python's str comparison on the base names of this universe: x <= y.
BasenameLeq(x, y) == (x = "a.json") \/ (y = "b.json")

\* get_image_path(dataset_dir, json_filename, image_id), relative to dataset_dir:
\* every path the scripts test or create lies under dataset_dir, and the set
\* `assets` holds such paths relative to it.
get_image_path(json_filename, image_id) ==
    "images/" \o SplitextStem(Basename(json_filename)) \o "/" \o image_id \o ".png"

\* The string the resolver writes into image_url (f"images/{date_folder}/{new_id}.png").
new_relative_path(filepath, new_id) ==
    "images/" \o SplitextStem(Basename(filepath)) \o "/" \o new_id \o ".png"

(***************************************************************************)
(* Records.                                                                *)
(***************************************************************************)
HasKey(item, key) == key \in DOMAIN item

\* item[key] = value
SetField(item, key, value) ==
    [x \in (DOMAIN item) \cup {key} |-> IF x = key THEN value ELSE item[x]]

BaseRecord == [title |-> "T", summary |-> "S"]

\* Records a dataset file can hold when a resolver pass starts: with or without
\* an id, with or without an image_url (the derived path).
InitRecords(f) ==
    { BaseRecord }
    \cup { SetField(BaseRecord, "id", d) : d \in TreeIdsOf(f) }
    \cup { SetField(SetField(BaseRecord, "id", d), "image_url", get_image_path(f, d)) :
             d \in TreeIdsOf(f) }

(***************************************************************************)
(* State.                                                                  *)
(***************************************************************************)
VARIABLES
    disk,            \* file path -> the JSON array persisted in it
    assets,          \* the files that exist under images/, relative to the dataset root
    pc,              \* position of the run
    json_files,      \* the list glob returned
    file_data_map,   \* ensure_unique_ids: filepath -> loaded list
    id_registry,     \* ensure_unique_ids: lower-cased id -> list of <<filepath, idx>>
    registry_keys,   \* insertion order of id_registry's keys (dict order)
    k,               \* index in registry_keys of the identifier being fixed
    i,               \* index in its occurrence list of the occurrence being fixed
    files_modified,  \* ensure_unique_ids: set of file paths to save
    cwd,             \* the directory the script was started from
    fidx,            \* process_images: index in json_files of dataset_file
    news_items,      \* process_images: the loaded list of dataset_file
    ridx,            \* process_images: index in news_items of item
    stage,           \* process_images: how far the current item got
    image_prompt,    \* process_images: the prompt of the current item
    needs_save,      \* process_images: the flag of the current file
    run,             \* "first" pass of process_images, or the "second"
    tree0,           \* history: disk and assets when the pass started
    fixes,           \* history: one entry per reassigned occurrence
    writes,          \* history: file path -> number of JSON writes in this pass
    last,            \* history: the latest step of process_images
    tally,           \* history: whether this pass called a capability, wrote an
                     \*          asset, met a failure
    unsaved,         \* history: records whose asset this pass wrote and whose
                     \*          update is not in the persisted JSON
    first_run        \* history: how the first process_images pass ended

NoStep == [pos |-> <<"", 0>>, what |-> "", result |-> "", attempts |-> 0, waits |-> <<>>]
NoTally == [called |-> FALSE, asset |-> FALSE, failed |-> {}]

treeVars     == <<disk, assets>>
resolverVars == <<json_files, file_data_map, id_registry, registry_keys, k, i, files_modified>>
syncVars     == <<fidx, news_items, ridx, stage, image_prompt, needs_save, run>>
historyVars  == <<tree0, fixes, writes>>
syncHistory  == <<last, tally, unsaved, first_run>>
vars == <<disk, assets, pc, json_files, file_data_map, id_registry, registry_keys,
          k, i, files_modified, cwd, fidx, news_items, ridx, stage, image_prompt,
          needs_save, run, tree0, fixes, writes, last, tally, unsaved, first_run>>

(***************************************************************************)
(* glob.glob(os.path.join(dataset_dir, '**', '*.json'), recursive=True):    *)
(* the files of the root directory first, then those of each               *)
(* sub-directory, each directory in the order the file system lists it.    *)
(***************************************************************************)
Perms(S) ==
    { p \in [1..Cardinality(S) -> S] : \A x \in S : \E n \in DOMAIN p : p[n] = x }

GlobOrders == { r \o s : r \in Perms(RootFiles), s \in Perms(SubFiles) }

(***************************************************************************)
(* Contents of a dataset file.  A file holds a JSON array of records, a    *)
(* sequence; two reserved one-element sequences stand for a file whose     *)
(* text is not JSON (an empty or cut-short file included) and for a file   *)
(* whose JSON value is not an array (an object, a number, null, a string). *)
(***************************************************************************)
Malformed == <<[json |-> "malformed"]>>
NonArray == <<[json |-> "not an array"]>>

\* json.load(f) returns (load_json, lines 18-25; process_images, lines 270-275).
Loadable(data) == data # Malformed

\* data is not None and isinstance(data, list) (lines 59, 137).
IsList(data) == data # Malformed /\ data # NonArray

(***************************************************************************)
(* ensure_unique_ids, step 1: the registry.                                *)
(***************************************************************************)
\* The occurrences <<filepath, idx>> of the records of data[1..n] that carry an id.
RECURSIVE FileOccurrences(_, _, _)
FileOccurrences(filepath, data, n) ==
    IF n = 0 THEN <<>>
    ELSE FileOccurrences(filepath, data, n - 1)
         \o (IF HasKey(data[n], "id") THEN << <<filepath, n>> >> ELSE <<>>)

\* All occurrences, in the order the load loop meets them.
RECURSIVE TreeOccurrences(_, _, _)
TreeOccurrences(files, map, n) ==
    IF n = 0 THEN <<>>
    ELSE TreeOccurrences(files, map, n - 1)
         \o (IF files[n] \in DOMAIN map
             THEN FileOccurrences(files[n], map[files[n]], Len(map[files[n]]))
             ELSE <<>>)

OccurrenceKey(map, o) == Lower(map[o[1]][o[2]]["id"])

\* The keys of id_registry in insertion order.
RECURSIVE KeyOrder(_, _, _)
KeyOrder(map, occ, n) ==
    IF n = 0 THEN <<>>
    ELSE LET before == KeyOrder(map, occ, n - 1)
             key    == OccurrenceKey(map, occ[n])
         IN  IF \E j \in DOMAIN before : before[j] = key THEN before
             ELSE Append(before, key)

\* id_registry[item_id.lower()].append((filepath, idx))
BuildRegistry(map, occ) ==
    [ key \in { OccurrenceKey(map, occ[n]) : n \in DOMAIN occ } |->
        LET Has(o) == OccurrenceKey(map, o) = key IN SelectSeq(occ, Has) ]

(***************************************************************************)
(* ensure_unique_ids, step 2: the fix loop.                                *)
(***************************************************************************)
\* occurrences.sort(key=lambda x: os.path.basename(x[0])): list.sort is stable.
InsertByBasename(sorted, o) ==
    LET n == Cardinality({ j \in DOMAIN sorted :
                             BasenameLeq(Basename(sorted[j][1]), Basename(o[1])) })
    IN  SubSeq(sorted, 1, n) \o <<o>> \o SubSeq(sorted, n + 1, Len(sorted))

RECURSIVE SortByBasenameRec(_)
SortByBasenameRec(occ) ==
    IF occ = <<>> THEN <<>>
    ELSE InsertByBasename(SortByBasenameRec(SubSeq(occ, 1, Len(occ) - 1)), occ[Len(occ)])

\* Mutant: the occurrences stay in discovery order (the sort is missing).
SortByBasename_Unsorted(occ) == occ

SortByBasename(occ) == SortByBasenameRec(occ)

\* The values the draw loop can end with:
\*   new_id = generate_short_id()
\*   while new_id.lower() in id_registry: new_id = generate_short_id()
DrawNewId(registry) == { s \in ShortIds : Lower(s) \notin DOMAIN registry }

\* Mutant: the asset is copied, the old file stays.
Rename_Copy(files, old, new) == files \cup {new}

\* os.rename(old_image_path, new_image_path) when it succeeds.
Rename(files, old, new) == (files \ {old}) \cup {new}

\* Mutant: image_url is rewritten whether or not the move succeeded.
FixItem_UrlAlways(item, filepath, new_id, moved) ==
    LET item1 == IF HasKey(item, "image_url")
                 THEN SetField(item, "image_url", new_relative_path(filepath, new_id))
                 ELSE item
    IN  SetField(item1, "id", new_id)

\* A fix that gives image_url to every record whose asset was moved.
FixItem_AddsUrl(item, filepath, new_id, moved) ==
    LET item1 == IF moved
                 THEN SetField(item, "image_url", new_relative_path(filepath, new_id))
                 ELSE item
    IN  SetField(item1, "id", new_id)

\* Lines 101-108: the record after the fix; `moved` says that the asset existed
\* and os.rename raised nothing.
FixItem(item, filepath, new_id, moved) ==
    LET item1 == IF moved /\ HasKey(item, "image_url")
                 THEN SetField(item, "image_url", new_relative_path(filepath, new_id))
                 ELSE item
    IN  SetField(item1, "id", new_id)

\* The next index >= from of registry_keys whose identifier has more than one
\* occurrence (len(occurrences) > 1), or Len(keys) + 1.
RECURSIVE NextDuplicate(_, _, _)
NextDuplicate(registry, keys, from) ==
    IF from > Len(keys) THEN from
    ELSE IF Len(registry[keys[from]]) > 1 THEN from
    ELSE NextDuplicate(registry, keys, from + 1)

\* Lines 46-69: glob, load every file, build the registry.  A file that does
\* not load or does not hold a list gets no entry in file_data_map.
LoadRegistry ==
    /\ pc = "start"
    /\ \E order \in GlobOrders :
         LET map == [f \in { order[n] : n \in DOMAIN order } \cap { g \in Files : IsList(disk[g]) }
                       |-> disk[f]]
             occ == TreeOccurrences(order, map, Len(order))
             reg == BuildRegistry(map, occ)
             keys == KeyOrder(map, occ, Len(occ))
         IN  /\ json_files' = order
             /\ file_data_map' = map
             /\ id_registry' = reg
             /\ registry_keys' = keys
             /\ k' = NextDuplicate(reg, keys, 1)
    /\ i' = 2
    /\ files_modified' = {}
    /\ pc' = "fix"
    /\ UNCHANGED <<treeVars, historyVars, cwd, syncVars, syncHistory>>

\* Lines 72-109: one iteration of `for i in range(1, len(occurrences))`, with the
\* sort of line 77 when it is the first of its identifier.
FixOccurrence ==
    /\ pc = "fix"
    /\ k <= Len(registry_keys)
    /\ LET id_lower    == registry_keys[k]
           occurrences == SortByBasename(id_registry[id_lower])
           filepath    == occurrences[i][1]
           idx         == occurrences[i][2]
           item        == file_data_map[filepath][idx]
           old_id      == item["id"]
           old_image_path == get_image_path(Basename(filepath), old_id)
       IN  \E new_id \in DrawNewId(id_registry) :
           \E rename_ok \in BOOLEAN :
             LET new_image_path == get_image_path(Basename(filepath), new_id)
                 exists == old_image_path \in assets
                 moved  == exists /\ rename_ok
                 item2  == FixItem(item, filepath, new_id, moved)
             IN  /\ exists \/ rename_ok
                 /\ assets' = IF moved THEN Rename(assets, old_image_path, new_image_path)
                              ELSE assets
                 /\ file_data_map' = [file_data_map EXCEPT ![filepath][idx] = item2]
                 /\ id_registry' = [id_registry EXCEPT ![id_lower] = occurrences]
                 /\ files_modified' = files_modified \cup {filepath}
                 /\ fixes' = Append(fixes,
                        [filepath |-> filepath, idx |-> idx, old_id |-> old_id,
                         new_id |-> new_id, kept |-> occurrences[1],
                         move |-> IF ~exists THEN "none"
                                  ELSE IF rename_ok THEN "ok" ELSE "failed"])
                 /\ IF i < Len(occurrences)
                    THEN /\ i' = i + 1
                         /\ k' = k
                    ELSE /\ i' = 2
                         /\ k' = NextDuplicate(id_registry, registry_keys, k + 1)
    /\ UNCHANGED <<disk, pc, json_files, registry_keys, tree0, writes>>
    /\ UNCHANGED <<cwd, syncVars, syncHistory>>

\* How open(filepath, 'w') / json.dump can end: written; open raised and the
\* file is as it was; json.dump raised after open emptied the file, which is
\* left cut short.
WriteOutcomes == {"ok", "open_failed", "dump_failed"}

\* The file system after a write of data to filepath that ended in outcome.
WriteJson(d, filepath, data, outcome) ==
    CASE outcome = "ok"          -> [d EXCEPT ![filepath] = data]
      [] outcome = "open_failed" -> d
      [] outcome = "dump_failed" -> [d EXCEPT ![filepath] = Malformed]

\* save_json(filepath, data), lines 27-33: the exception of a failed write is
\* caught and printed, and the caller goes on as after a success.
save_json(d, filepath, data, outcome) == WriteJson(d, filepath, data, outcome)

\* A save loop over every loaded file instead of files_modified.
SaveModified_EveryFile ==
    /\ pc = "fix"
    /\ k > Len(registry_keys)
    /\ \E outcome \in [DOMAIN file_data_map -> WriteOutcomes] :
         disk' = [f \in DOMAIN disk |->
                    IF f \in DOMAIN file_data_map
                    THEN save_json(disk, f, file_data_map[f], outcome[f])[f]
                    ELSE disk[f]]
    /\ writes' = [f \in DOMAIN writes |->
                    IF f \in DOMAIN file_data_map THEN writes[f] + 1 ELSE writes[f]]
    /\ pc' = "resolved"
    /\ UNCHANGED <<assets, resolverVars, tree0, fixes, cwd, syncVars, syncHistory>>

\* Lines 111-118: save every modified file; writes counts the times a file is
\* opened for writing.
SaveModified ==
    /\ pc = "fix"
    /\ k > Len(registry_keys)
    /\ \E outcome \in [files_modified -> WriteOutcomes] :
         disk' = [f \in DOMAIN disk |->
                    IF f \in files_modified
                    THEN save_json(disk, f, file_data_map[f], outcome[f])[f]
                    ELSE disk[f]]
    /\ writes' = [f \in DOMAIN writes |->
                    IF f \in files_modified THEN writes[f] + 1 ELSE writes[f]]
    /\ pc' = "resolved"
    /\ UNCHANGED <<assets, resolverVars, tree0, fixes, cwd, syncVars, syncHistory>>

(***************************************************************************)
(* process_images (process_dataset.py, lines 249-333).                     *)
(***************************************************************************)
\* Number of attempts of generate_image (range(5), line 212).
MaxAttempts == 5

\* Python's None, as generate_image_prompt and save_image_locally return it.
PyNone == "<None>"

\* A test that takes only None for a failure.
Falsy_NoneOnly(x) == x = PyNone

\* `not x` for a str, bytes or None value.
Falsy(x) == x = PyNone \/ x = ""

\* What generate_image_prompt can return: the stripped response text, which
\* may be empty, or None on an error or a status other than 200.
DescribeResults == {"a prompt", "", PyNone}

\* Whether each of the attempts of generate_image gets status 200.
AttemptOutcomes == [1..MaxAttempts -> BOOLEAN]

\* response.content of a response with status 200 (line 216): the bytes of an
\* image, or an empty body.
Contents == {"bytes", ""}

\* A retry loop that sleeps one second after every failed attempt.
RECURSIVE GenerateFrom_ConstantWait(_, _, _)
GenerateFrom_ConstantWait(outcomes, attempt, slept) ==
    IF attempt >= MaxAttempts
    THEN [ok |-> FALSE, attempts |-> MaxAttempts, slept |-> slept]
    ELSE IF outcomes[attempt + 1]
    THEN [ok |-> TRUE, attempts |-> attempt + 1, slept |-> slept]
    ELSE GenerateFrom_ConstantWait(outcomes, attempt + 1, Append(slept, 1))

generate_image_ConstantWait(outcomes) == GenerateFrom_ConstantWait(outcomes, 0, <<>>)

\* generate_image (lines 203-228) on the outcomes of its attempts: the first
\* successful attempt returns the bytes; time.sleep(2 ** attempt) follows each
\* failed attempt but the last.  slept lists the seconds of each sleep.
RECURSIVE GenerateFrom(_, _, _)
GenerateFrom(outcomes, attempt, slept) ==
    IF attempt >= MaxAttempts
    THEN [ok |-> FALSE, attempts |-> MaxAttempts, slept |-> slept]
    ELSE IF outcomes[attempt + 1]
    THEN [ok |-> TRUE, attempts |-> attempt + 1, slept |-> slept]
    ELSE GenerateFrom(outcomes, attempt + 1,
                      IF attempt < MaxAttempts - 1 THEN Append(slept, 2 ^ attempt) ELSE slept)

generate_image(outcomes) == GenerateFrom(outcomes, 0, <<>>)

\* os.path.relpath(filepath, 'dataset') with forward slashes (lines 241-243), for
\* filepath = <dataset_dir>/images/<stem>/<filename>: the start directory
\* 'dataset' is resolved against the working directory, and dataset_dir is
\* <repository>/dataset (main, lines 336-337).  Started from the repository
\* root the result is relative to dataset_dir; started from scripts/ it
\* climbs out of scripts/dataset.
RelPathFromDataset(dir, stem, filename) ==
    IF dir = "root"
    THEN "images/" \o stem \o "/" \o filename
    ELSE "../../dataset/images/" \o stem \o "/" \o filename

\* image_exists without the look at the file system.
image_exists_MetadataOnly(item, files) ==
    /\ HasKey(item, "image_url")
    /\ item["image_url"] # ""

\* Lines 283-287: image_exists.  os.path.join(dataset_dir, image_url) exists iff
\* image_url names one of the files under dataset_dir.
image_exists(item, files) ==
    /\ HasKey(item, "image_url")
    /\ item["image_url"] # ""
    /\ item["image_url"] \in files

\* Lines 308-309: whether an id is minted.
MissingId(item) == ~HasKey(item, "id") \/ item["id"] = ""

\* The identifiers a file name under images/ can carry.
KnownIds == TreeIds \cup ShortIds

\* output_dir, relative to dataset_dir (line 268).
ImageDir(stem) == "images/" \o stem

\* os.path.exists(output_dir), line 232: the directory is there when a file
\* is in it or when it was made for a file that was not created.
DirExists(stem, files) ==
    \/ ImageDir(stem) \in files
    \/ \E d \in KnownIds : ("images/" \o stem \o "/" \o d \o ".png") \in files

\* How save_image_locally can end: os.makedirs raised (lines 232-233, outside
\* the try block); written; open failed (no file); write failed after open
\* created the file.
SaveOutcomes == {"makedirs_failed", "ok", "open_failed", "write_failed"}

\* The entries under images/ after save_image_locally ended in outcome.
SavedAssets(files, stem, path, outcome) ==
    CASE outcome = "makedirs_failed" -> files
      [] outcome = "open_failed"     -> IF DirExists(stem, files) THEN files
                                        ELSE files \cup {ImageDir(stem)}
      [] OTHER                       -> files \cup {path}

Dataset_file == json_files[fidx]
Here == <<Dataset_file, ridx>>

Step(what, result) ==
    [pos |-> Here, what |-> what, result |-> result, attempts |-> 0, waits |-> <<>>]

\* Lines 263-275: the index in order of the first file from index `from` on
\* that json.load accepts, Len(order) + 1 when there is none.
RECURSIVE NextLoadable(_, _, _)
NextLoadable(d, order, from) ==
    IF from > Len(order) THEN Len(order) + 1
    ELSE IF Loadable(d[order[from]]) THEN from
    ELSE NextLoadable(d, order, from + 1)

NextItem ==
    /\ ridx' = ridx + 1
    /\ stage' = "visit"
    /\ image_prompt' = ""

\* Lines 255-280: glob, then open the first file.
StartImages ==
    /\ pc = "images"
    /\ \E order \in GlobOrders :
         LET n == NextLoadable(disk, order, 1) IN
         /\ json_files' = order
         /\ IF n <= Len(order)
            THEN /\ fidx' = n
                 /\ news_items' = disk[order[n]]
                 /\ stage' = "visit"
                 /\ pc' = "sync"
            ELSE /\ fidx' = 1
                 /\ news_items' = <<>>
                 /\ stage' = "idle"
                 /\ pc' = "synced"
    /\ ridx' = 1
    /\ image_prompt' = ""
    /\ needs_save' = FALSE
    /\ tree0' = [disk |-> disk, assets |-> assets]
    /\ writes' = [f \in Files |-> 0]
    /\ last' = NoStep
    /\ tally' = NoTally
    /\ unsaved' = {}
    /\ UNCHANGED <<treeVars, file_data_map, id_registry, registry_keys, k, i,
                   files_modified, cwd, run, fixes, first_run>>

\* Lines 282-290: the item's image exists, continue.  The same statements are
\* in generate_news_images.main (lines 134-145).
SkipItem ==
    /\ pc \in {"sync", "news"} /\ stage = "visit" /\ ridx <= Len(news_items)
    /\ news_items # NonArray
    /\ image_exists(news_items[ridx], assets)
    /\ NextItem
    /\ last' = Step("skip", "")
    /\ UNCHANGED <<treeVars, pc, resolverVars, cwd, fidx, news_items, needs_save, run,
                   historyVars, tally, unsaved, first_run>>

\* Lines 292-298: generate_image_prompt (generate_news_images.main, lines
\* 147-153).
Describe ==
    /\ pc \in {"sync", "news"} /\ stage = "visit" /\ ridx <= Len(news_items)
    /\ news_items # NonArray
    /\ ~image_exists(news_items[ridx], assets)
    /\ \E result \in DescribeResults :
         /\ last' = Step("describe", result)
         /\ IF Falsy(result)
            THEN /\ NextItem
                 /\ tally' = [tally EXCEPT !.called = TRUE, !.failed = @ \cup {Here}]
            ELSE /\ stage' = "prompted"
                 /\ image_prompt' = result
                 /\ ridx' = ridx
                 /\ tally' = [tally EXCEPT !.called = TRUE]
    /\ UNCHANGED <<treeVars, pc, resolverVars, cwd, fidx, news_items, needs_save, run,
                   historyVars, unsaved, first_run>>

\* Lines 300-304: generate_image, then `if not image_bytes: continue`
\* (generate_news_images.main, lines 155-160).
Generate ==
    /\ pc \in {"sync", "news"} /\ stage = "prompted"
    /\ \E outcomes \in AttemptOutcomes : \E content \in Contents :
         LET r == generate_image(outcomes)
             image_bytes == IF r.ok THEN content ELSE PyNone
         IN
         /\ last' = [Step("generate", image_bytes)
                        EXCEPT !.attempts = r.attempts, !.waits = r.slept]
         /\ IF Falsy(image_bytes)
            THEN /\ NextItem
                 /\ tally' = [tally EXCEPT !.called = TRUE, !.failed = @ \cup {Here}]
            ELSE /\ stage' = "generated"
                 /\ UNCHANGED <<ridx, image_prompt>>
                 /\ tally' = [tally EXCEPT !.called = TRUE]
    /\ UNCHANGED <<treeVars, pc, resolverVars, cwd, fidx, news_items, needs_save, run,
                   historyVars, unsaved, first_run>>

\* Lines 306-316: mint a missing id, then save_image_locally.  The exception
\* of os.makedirs is caught by nothing and ends the run.
SaveAsset ==
    /\ pc = "sync" /\ stage = "generated"
    /\ LET item == news_items[ridx]
           stem == SplitextStem(Basename(Dataset_file))
       IN
       \E new_id \in (IF MissingId(item) THEN MintIds ELSE {item["id"]}) :
       \E outcome \in SaveOutcomes :
         LET item1 == IF MissingId(item) THEN SetField(item, "id", new_id) ELSE item
             path  == get_image_path(Dataset_file, item1["id"])
         IN  /\ outcome = "makedirs_failed" => ~DirExists(stem, assets)
             /\ news_items' = [news_items EXCEPT ![ridx] = item1]
             /\ assets' = SavedAssets(assets, stem, path, outcome)
             /\ last' = Step("save", outcome)
             /\ CASE outcome = "ok" ->
                       /\ stage' = "saved"
                       /\ UNCHANGED <<pc, ridx, image_prompt>>
                       /\ tally' = [tally EXCEPT !.asset = TRUE]
                       /\ unsaved' = unsaved \cup {Here}
                  [] outcome = "makedirs_failed" ->
                       /\ pc' = "failed"
                       /\ stage' = "idle"
                       /\ UNCHANGED <<ridx, image_prompt, unsaved>>
                       /\ tally' = [tally EXCEPT !.failed = @ \cup {Here}]
                  [] OTHER ->
                       /\ NextItem
                       /\ pc' = pc
                       /\ tally' = [tally EXCEPT !.failed = @ \cup {Here},
                                                 !.asset = @ \/ outcome = "write_failed"]
                       /\ unsaved' = unsaved
    /\ UNCHANGED <<disk, resolverVars, cwd, fidx, needs_save, run, historyVars, first_run>>

\* Lines 313, 319-323: the value save_image_locally returned goes to image_url.
UpdateItem ==
    /\ pc = "sync" /\ stage = "saved"
    /\ LET item == news_items[ridx]
           image_url == RelPathFromDataset(cwd, SplitextStem(Basename(Dataset_file)),
                                           item["id"] \o ".png")
       IN  news_items' = [news_items EXCEPT ![ridx] =
               SetField(SetField(item, "image_url", image_url), "image_prompt", image_prompt)]
    /\ needs_save' = TRUE
    /\ NextItem
    /\ last' = Step("update", "")
    /\ UNCHANGED <<treeVars, pc, resolverVars, cwd, fidx, run, historyVars, tally,
                   unsaved, first_run>>

\* Lines 263-280 for the file after dataset_file.
OpenNextFile ==
    IF NextLoadable(disk, json_files, fidx + 1) <= Len(json_files)
    THEN /\ fidx' = NextLoadable(disk, json_files, fidx + 1)
         /\ news_items' = disk[json_files[NextLoadable(disk, json_files, fidx + 1)]]
         /\ ridx' = 1
         /\ UNCHANGED <<pc, stage>>
    ELSE /\ pc' = "synced"
         /\ stage' = "idle"
         /\ fidx' = 1
         /\ news_items' = <<>>
         /\ ridx' = 1

\* The state of a process that was terminated: memory is lost.
Killed(at) ==
    /\ pc' = at
    /\ stage' = "idle"
    /\ fidx' = 1
    /\ news_items' = <<>>
    /\ ridx' = 1
    /\ image_prompt' = ""
    /\ last' = NoStep
    /\ tally' = NoTally

\* The state of a run that an exception ended.
Raised(what, exception) ==
    /\ pc' = "failed"
    /\ stage' = "idle"
    /\ last' = [pos |-> <<Dataset_file, 0>>, what |-> what, result |-> exception,
                attempts |-> 0, waits |-> <<>>]
    /\ UNCHANGED <<fidx, news_items, ridx, image_prompt, tally>>

\* Lines 328-333, then lines 263-280 for the next file: the file is written
\* once all its items were visited, if any was updated.  The write is open,
\* which empties the file, then json.dump; an exception of either is caught
\* by nothing and ends the run, and a process terminated in between leaves
\* the file cut short.
CloseFile ==
    /\ pc = "sync" /\ stage = "visit" /\ ridx > Len(news_items)
    /\ news_items # NonArray
    /\ IF needs_save
       THEN /\ writes' = [writes EXCEPT ![Dataset_file] = @ + 1]
            /\ \E outcome \in WriteOutcomes \cup {"killed"} :
                 CASE outcome = "ok" ->
                        /\ disk' = WriteJson(disk, Dataset_file, news_items, "ok")
                        /\ unsaved' = { o \in unsaved : o[1] # Dataset_file }
                        /\ OpenNextFile
                        /\ needs_save' = FALSE
                        /\ image_prompt' = ""
                        /\ last' = [pos |-> <<Dataset_file, 0>>, what |-> "close",
                                    result |-> "written", attempts |-> 0, waits |-> <<>>]
                        /\ UNCHANGED tally
                   [] outcome = "killed" ->
                        /\ run = "first"
                        /\ disk' = WriteJson(disk, Dataset_file, news_items, "dump_failed")
                        /\ Killed("crashed")
                        /\ needs_save' = FALSE
                        /\ UNCHANGED unsaved
                   [] OTHER ->
                        /\ disk' = WriteJson(disk, Dataset_file, news_items, outcome)
                        /\ Raised("close", "OSError")
                        /\ UNCHANGED <<needs_save, unsaved>>
       ELSE /\ UNCHANGED <<disk, writes, unsaved, tally>>
            /\ OpenNextFile
            /\ needs_save' = FALSE
            /\ image_prompt' = ""
            /\ last' = [pos |-> <<Dataset_file, 0>>, what |-> "close", result |-> "",
                        attempts |-> 0, waits |-> <<>>]
    /\ UNCHANGED <<assets, resolverVars, cwd, run, tree0, fixes, first_run>>

\* Lines 282-292 on a value that is not a list: `for item in news_items`
\* raises TypeError on a number or null, and item['title'] raises it on the
\* keys of an object or the characters of a string.  Nothing catches it:
\* process_images and main end with the exception.  An empty object and an
\* empty string have nothing to iterate over: the body never runs and lines
\* 328-333 go on to the next file without a write.
IterateNonArray ==
    /\ pc = "sync" /\ stage = "visit" /\ ridx = 1
    /\ news_items = NonArray
    /\ \/ /\ pc' = "failed"
          /\ stage' = "idle"
          /\ last' = Step("iterate", "TypeError")
          /\ UNCHANGED <<fidx, news_items, ridx, image_prompt, needs_save>>
       \/ /\ OpenNextFile
          /\ needs_save' = FALSE
          /\ image_prompt' = ""
          /\ last' = [pos |-> <<Dataset_file, 0>>, what |-> "close", result |-> "",
                      attempts |-> 0, waits |-> <<>>]
    /\ UNCHANGED <<treeVars, resolverVars, cwd, run, historyVars, tally, unsaved, first_run>>

(***************************************************************************)
(* generate_news_images.main (generate_news_images.py, lines 96-183): the  *)
(* .json files directly under dataset/, each item visited as in            *)
(* process_images, the file written after each updated item.               *)
(***************************************************************************)
\* Lines 101-131: os.listdir('dataset'), then open the first file that loads.
StartNews ==
    /\ pc = "news_start"
    /\ \E order \in Perms(RootFiles) :
         LET n == NextLoadable(disk, order, 1) IN
         /\ json_files' = order
         /\ IF n <= Len(order)
            THEN /\ fidx' = n
                 /\ news_items' = disk[order[n]]
                 /\ stage' = "visit"
                 /\ pc' = "news"
            ELSE /\ fidx' = 1
                 /\ news_items' = <<>>
                 /\ stage' = "idle"
                 /\ pc' = "news_done"
    /\ ridx' = 1
    /\ image_prompt' = ""
    /\ needs_save' = FALSE
    /\ tree0' = [disk |-> disk, assets |-> assets]
    /\ writes' = [f \in Files |-> 0]
    /\ last' = NoStep
    /\ tally' = NoTally
    /\ UNCHANGED <<treeVars, file_data_map, id_registry, registry_keys, k, i,
                   files_modified, cwd, run, fixes, unsaved, first_run>>

\* Lines 162-168: image_filename = f"{item['id']}.png" raises KeyError when
\* the item has no id, and nothing catches it; otherwise save_image_locally,
\* where the exception of os.makedirs (lines 68-69) ends the run as well.
\* unsaved follows the first run only.
SaveAssetNews ==
    /\ pc = "news" /\ stage = "generated"
    /\ LET item == news_items[ridx]
           stem == SplitextStem(Basename(Dataset_file))
       IN
       IF ~HasKey(item, "id")
       THEN /\ pc' = "failed"
            /\ stage' = "idle"
            /\ last' = Step("save", "KeyError")
            /\ UNCHANGED <<assets, ridx, image_prompt, tally, unsaved>>
       ELSE \E outcome \in SaveOutcomes :
            /\ outcome = "makedirs_failed" => ~DirExists(stem, assets)
            /\ assets' = SavedAssets(assets, stem, get_image_path(Dataset_file, item["id"]),
                                     outcome)
            /\ last' = Step("save", outcome)
            /\ CASE outcome = "ok" ->
                      /\ stage' = "saved"
                      /\ UNCHANGED <<pc, ridx, image_prompt>>
                      /\ tally' = [tally EXCEPT !.asset = TRUE]
                      /\ unsaved' = IF run = "first" THEN unsaved \cup {Here} ELSE unsaved
                 [] outcome = "makedirs_failed" ->
                      /\ pc' = "failed"
                      /\ stage' = "idle"
                      /\ UNCHANGED <<ridx, image_prompt, unsaved>>
                      /\ tally' = [tally EXCEPT !.failed = @ \cup {Here}]
                 [] OTHER ->
                      /\ NextItem
                      /\ pc' = pc
                      /\ tally' = [tally EXCEPT !.failed = @ \cup {Here},
                                                !.asset = @ \/ outcome = "write_failed"]
                      /\ unsaved' = unsaved
    /\ UNCHANGED <<disk, resolverVars, cwd, fidx, news_items, needs_save, run,
                   historyVars, first_run>>

\* The positions of the records of a file that this run updated.
Updated(filename, items) ==
    { <<filename, n>> : n \in { m \in DOMAIN items : items[m] # tree0.disk[filename][m] } }

\* Lines 170-178: item['image_url'], item['image_prompt'], then the write of
\* the whole file.  Both 'dataset' paths are relative to the working
\* directory, so the value returned by save_image_locally is
\* images/<base_name>/<id>.png.  The write is open, which empties the file,
\* then json.dump; an exception of either is caught by nothing and ends the
\* run, and a process terminated in between leaves the file cut short.
UpdateItemNews ==
    /\ pc = "news" /\ stage = "saved"
    /\ LET item == news_items[ridx]
           image_url == RelPathFromDataset("root", SplitextStem(Basename(Dataset_file)),
                                           item["id"] \o ".png")
           items == [news_items EXCEPT ![ridx] =
               SetField(SetField(item, "image_url", image_url), "image_prompt", image_prompt)]
       IN  \E outcome \in WriteOutcomes \cup {"killed"} :
             CASE outcome = "ok" ->
                    /\ disk' = WriteJson(disk, Dataset_file, items, "ok")
                    /\ news_items' = items
                    /\ unsaved' = IF run = "first" THEN unsaved \ {Here} ELSE unsaved
                    /\ NextItem
                    /\ last' = Step("update", "written")
                    /\ UNCHANGED <<pc, fidx, tally>>
               [] outcome = "killed" ->
                    /\ run = "first"
                    /\ disk' = WriteJson(disk, Dataset_file, items, "dump_failed")
                    /\ Killed("news_crashed")
                    /\ unsaved' = Updated(Dataset_file, items)
               [] OTHER ->
                    /\ disk' = WriteJson(disk, Dataset_file, items, outcome)
                    /\ pc' = "failed"
                    /\ stage' = "idle"
                    /\ news_items' = items
                    /\ last' = Step("update", "OSError")
                    /\ unsaved' = IF run = "first" /\ outcome = "dump_failed"
                                  THEN Updated(Dataset_file, items) ELSE unsaved
                    /\ UNCHANGED <<fidx, ridx, image_prompt, tally>>
    /\ writes' = [writes EXCEPT ![Dataset_file] = @ + 1]
    /\ UNCHANGED <<assets, resolverVars, cwd, needs_save, run, tree0, fixes, first_run>>

\* Lines 113-131, 180: the loop over the items is over, next file.
CloseFileNews ==
    /\ pc = "news" /\ stage = "visit" /\ ridx > Len(news_items)
    /\ IF NextLoadable(disk, json_files, fidx + 1) <= Len(json_files)
       THEN /\ fidx' = NextLoadable(disk, json_files, fidx + 1)
            /\ news_items' = disk[json_files[NextLoadable(disk, json_files, fidx + 1)]]
            /\ UNCHANGED <<pc, stage>>
       ELSE /\ pc' = "news_done"
            /\ stage' = "idle"
            /\ fidx' = 1
            /\ news_items' = <<>>
    /\ ridx' = 1
    /\ image_prompt' = ""
    /\ last' = [pos |-> <<Dataset_file, 0>>, what |-> "close", result |-> "",
                attempts |-> 0, waits |-> <<>>]
    /\ UNCHANGED <<treeVars, resolverVars, cwd, needs_save, run, historyVars, tally,
                   unsaved, first_run>>

\* The process is terminated during the first run: memory is lost.
TerminateNews ==
    /\ pc = "news" /\ run = "first"
    /\ Killed("news_crashed")
    /\ UNCHANGED <<treeVars, resolverVars, cwd, needs_save, run, historyVars, unsaved,
                   first_run>>

\* generate_news_images.py is run again, with no change to the tree in between.
RunAgainNews ==
    /\ pc \in {"news_done", "news_crashed"} /\ run = "first"
    /\ run' = "second"
    /\ first_run' = IF pc = "news_crashed" THEN "terminated"
                     ELSE IF tally.failed # {} THEN "completed with failures"
                     ELSE "completed, every step succeeded"
    /\ pc' = "news_start"
    /\ last' = NoStep
    /\ tally' = NoTally
    /\ UNCHANGED <<treeVars, resolverVars, cwd, fidx, news_items, ridx, stage,
                   image_prompt, needs_save, historyVars, unsaved>>

(***************************************************************************)
(* update_json (agent_image_helper.py, lines 38-80): the .json files       *)
(* directly under dataset/; an item whose asset exists at                  *)
(* images/<base_name>/<id>.png gets that path as image_url.                *)
(***************************************************************************)
\* Line 68: the prompt text update_json records.
AgentPrompt == "Generated via Antigravity Agent"

\* Line 65: rel_path = f"images/{base_name}/{img_name}".
rel_path(filename, id) == "images/" \o SplitextStem(Basename(filename)) \o "/" \o id \o ".png"

\* An update without the comparison of line 66.
update_item_Always(item, filename, files) ==
    IF HasKey(item, "id") /\ rel_path(filename, item["id"]) \in files
    THEN [item |-> SetField(SetField(item, "image_url", rel_path(filename, item["id"])),
                            "image_prompt", AgentPrompt),
          updated |-> TRUE]
    ELSE [item |-> item, updated |-> FALSE]

\* Lines 58-69: one item of the loop, and whether `updated` is incremented.
\* os.path.exists(image_subdir) (line 55) holds whenever a file exists below
\* it.
update_item(item, filename, files) ==
    IF HasKey(item, "id") /\ rel_path(filename, item["id"]) \in files
       /\ ~(HasKey(item, "image_url") /\ item["image_url"] = rel_path(filename, item["id"]))
    THEN [item |-> SetField(SetField(item, "image_url", rel_path(filename, item["id"])),
                            "image_prompt", AgentPrompt),
          updated |-> TRUE]
    ELSE [item |-> item, updated |-> FALSE]

\* Lines 39-49: os.listdir(dataset_dir), then open the first file that loads.
StartHelper ==
    /\ pc = "helper_start"
    /\ \E order \in Perms(RootFiles) :
         LET n == NextLoadable(disk, order, 1) IN
         /\ json_files' = order
         /\ IF n <= Len(order)
            THEN /\ fidx' = n
                 /\ news_items' = disk[order[n]]
                 /\ stage' = "visit"
                 /\ pc' = "helper"
            ELSE /\ fidx' = 1
                 /\ news_items' = <<>>
                 /\ stage' = "idle"
                 /\ pc' = "helper_done"
    /\ ridx' = 1
    /\ image_prompt' = ""
    /\ needs_save' = FALSE
    /\ tree0' = [disk |-> disk, assets |-> assets]
    /\ writes' = [f \in Files |-> 0]
    /\ last' = NoStep
    /\ tally' = NoTally
    /\ UNCHANGED <<treeVars, file_data_map, id_registry, registry_keys, k, i,
                   files_modified, cwd, run, fixes, unsaved, first_run>>

\* Lines 58-69: the next item; needs_save stands for updated > 0.
UpdateJsonItem ==
    /\ pc = "helper" /\ stage = "visit" /\ ridx <= Len(news_items)
    /\ LET r == update_item(news_items[ridx], Dataset_file, assets) IN
       /\ news_items' = [news_items EXCEPT ![ridx] = r.item]
       /\ needs_save' = (needs_save \/ r.updated)
       /\ last' = Step("update_json", IF r.updated THEN "updated" ELSE "")
    /\ ridx' = ridx + 1
    /\ UNCHANGED <<treeVars, pc, resolverVars, cwd, fidx, stage, image_prompt, run,
                   historyVars, tally, unsaved, first_run>>

\* Lines 43-56 for the file after filename.
OpenNextFileHelper ==
    /\ IF NextLoadable(disk, json_files, fidx + 1) <= Len(json_files)
       THEN /\ fidx' = NextLoadable(disk, json_files, fidx + 1)
            /\ news_items' = disk[json_files[NextLoadable(disk, json_files, fidx + 1)]]
            /\ UNCHANGED <<pc, stage>>
       ELSE /\ pc' = "helper_done"
            /\ stage' = "idle"
            /\ fidx' = 1
            /\ news_items' = <<>>
    /\ ridx' = 1
    /\ needs_save' = FALSE

\* Lines 71-73, then the next file (lines 43-56): the file is written when an
\* item was updated.  The write is open, which empties the file, then
\* json.dump; an exception of either is caught by nothing and ends the run,
\* and a process terminated in between leaves the file cut short.
CloseFileHelper ==
    /\ pc = "helper" /\ stage = "visit" /\ ridx > Len(news_items)
    /\ IF needs_save
       THEN /\ writes' = [writes EXCEPT ![Dataset_file] = @ + 1]
            /\ \E outcome \in WriteOutcomes \cup {"killed"} :
                 CASE outcome = "ok" ->
                        /\ disk' = WriteJson(disk, Dataset_file, news_items, "ok")
                        /\ OpenNextFileHelper
                        /\ last' = [pos |-> <<Dataset_file, 0>>, what |-> "close",
                                    result |-> "written", attempts |-> 0, waits |-> <<>>]
                        /\ UNCHANGED <<image_prompt, tally>>
                   [] outcome = "killed" ->
                        /\ run = "first"
                        /\ disk' = WriteJson(disk, Dataset_file, news_items, "dump_failed")
                        /\ Killed("helper_crashed")
                        /\ needs_save' = FALSE
                   [] OTHER ->
                        /\ disk' = WriteJson(disk, Dataset_file, news_items, outcome)
                        /\ Raised("close", "OSError")
                        /\ UNCHANGED needs_save
       ELSE /\ UNCHANGED <<disk, writes, image_prompt, tally>>
            /\ OpenNextFileHelper
            /\ last' = [pos |-> <<Dataset_file, 0>>, what |-> "close", result |-> "",
                        attempts |-> 0, waits |-> <<>>]
    /\ UNCHANGED <<assets, resolverVars, cwd, run, tree0, fixes, unsaved, first_run>>

\* agent_image_helper.py update is run again, with no change in between.
RunAgainHelper ==
    /\ pc = "helper_done" /\ run = "first"
    /\ run' = "second"
    /\ first_run' = "completed"
    /\ pc' = "helper_start"
    /\ last' = NoStep
    /\ UNCHANGED <<treeVars, resolverVars, cwd, fidx, news_items, ridx, stage,
                   image_prompt, needs_save, historyVars, tally, unsaved>>

\* The process is terminated during the first pass: memory is lost.
Terminate ==
    /\ pc = "sync" /\ run = "first"
    /\ Killed("crashed")
    /\ needs_save' = FALSE
    /\ UNCHANGED <<treeVars, resolverVars, cwd, run, historyVars, unsaved, first_run>>

\* process_images is run again, with no change to the tree in between.
RunAgain ==
    /\ pc \in {"synced", "crashed"} /\ run = "first"
    /\ run' = "second"
    /\ first_run' = IF pc = "crashed" THEN "terminated"
                     ELSE IF tally.failed # {} THEN "completed with failures"
                     ELSE "completed, every step succeeded"
    /\ pc' = "images"
    /\ last' = NoStep
    /\ tally' = NoTally
    /\ unsaved' = {}
    /\ UNCHANGED <<treeVars, resolverVars, cwd, fidx, news_items, ridx, stage,
                   image_prompt, needs_save, historyVars>>

\* Lines 131, 146-148: citation_pattern.sub('', text).strip() with runs of
\* white space collapsed.  The texts of the records modelled carry no
\* citation mark and no surplus white space, so each is its own cleaned text.
clean_text(text) ==
    CASE text = "T" -> "T"
      [] text = "S" -> "S"
      [] OTHER -> text

clean_item(item) ==
    [key \in DOMAIN item |->
        IF key \in {"title", "summary", "raw_text"} THEN clean_text(item[key]) ELSE item[key]]

\* A main that goes on to the next stages before the resolver has saved.
CleanCitations_BeforeSave ==
    /\ pc = "fix"
    /\ LET cleaned == [f \in Files |->
                          IF IsList(disk[f])
                          THEN [n \in DOMAIN disk[f] |-> clean_item(disk[f][n])]
                          ELSE disk[f]]
           changed == { f \in Files : cleaned[f] # disk[f] }
       IN  /\ \E outcome \in [changed -> WriteOutcomes] :
                disk' = [f \in Files |->
                           IF f \in changed THEN save_json(disk, f, cleaned[f], outcome[f])[f]
                           ELSE disk[f]]
           /\ writes' = [f \in Files |-> IF f \in changed THEN writes[f] + 1 ELSE writes[f]]
    /\ pc' = "images"
    /\ UNCHANGED <<assets, resolverVars, cwd, syncVars, tree0, fixes, syncHistory>>

\* Lines 119-164: clean_citations rewrites the files in which a text changed.
CleanCitations ==
    /\ pc = "resolved"
    /\ LET cleaned == [f \in Files |->
                          IF IsList(disk[f])
                          THEN [n \in DOMAIN disk[f] |-> clean_item(disk[f][n])]
                          ELSE disk[f]]
           changed == { f \in Files : cleaned[f] # disk[f] }
       IN  /\ \E outcome \in [changed -> WriteOutcomes] :
                disk' = [f \in Files |->
                           IF f \in changed THEN save_json(disk, f, cleaned[f], outcome[f])[f]
                           ELSE disk[f]]
           /\ writes' = [f \in Files |-> IF f \in changed THEN writes[f] + 1 ELSE writes[f]]
    /\ pc' = "images"
    /\ UNCHANGED <<assets, resolverVars, cwd, syncVars, tree0, fixes, syncHistory>>

(***************************************************************************)
(* Initial states: every dataset tree of at most MaxRecords records, with  *)
(* any subset of the records' derived asset files present.                 *)
(***************************************************************************)
RECURSIVE SumLens(_, _)
SumLens(lens, S) ==
    IF S = {} THEN 0
    ELSE LET f == CHOOSE x \in S : TRUE IN lens[f] + SumLens(lens, S \ {f})

\* The two sub-directories are interchangeable (glob lists them in either
\* order), so the longer file is taken to be the one in s1.
LenChoices ==
    { lens \in [Files -> 0..MaxRecords] :
        /\ SumLens(lens, Files) <= MaxRecords
        /\ lens["s1/a.json"] >= lens["s2/a.json"] }

DerivedPaths(d) ==
    { get_image_path(f, d[f][n]["id"]) :
        <<f, n>> \in { o \in Files \X (1..(MaxRecords + MaxSyncRecords)) :
                         o[2] <= Len(d[o[1]]) /\ HasKey(d[o[1]][o[2]], "id") } }

InitTree ==
    /\ \E lens \in LenChoices :
       \E rb \in [1..lens["b.json"] -> InitRecords("b.json")] :
       \E r1 \in [1..lens["s1/a.json"] -> InitRecords("s1/a.json")] :
       \E r2 \in [1..lens["s2/a.json"] -> InitRecords("s2/a.json")] :
          disk = ("b.json" :> rb) @@ ("s1/a.json" :> r1) @@ ("s2/a.json" :> r2)
    /\ assets \in SUBSET DerivedPaths(disk)

\* The variables of process_images before it runs.
SyncIdle ==
    /\ fidx = 1
    /\ news_items = <<>>
    /\ ridx = 1
    /\ stage = "idle"
    /\ image_prompt = ""
    /\ needs_save = FALSE
    /\ run = "first"
    /\ last = NoStep
    /\ tally = NoTally
    /\ unsaved = {}
    /\ first_run = ""

InitResolver ==
    /\ InitTree
    /\ cwd = "root"
    /\ SyncIdle
    /\ pc = "start"
    /\ json_files = <<>>
    /\ file_data_map = <<>>
    /\ id_registry = <<>>
    /\ registry_keys = <<>>
    /\ k = 1
    /\ i = 2
    /\ files_modified = {}
    /\ tree0 = [disk |-> disk, assets |-> assets]
    /\ fixes = <<>>
    /\ writes = [f \in Files |-> 0]

\* Records a dataset file can hold when process_images starts: without an id
\* and image_url, or with the id ab12 and no image_url, an empty one, or the
\* derived path.
InitSyncRecords(f) ==
    { BaseRecord,
      SetField(BaseRecord, "id", "ab12"),
      SetField(SetField(BaseRecord, "id", "ab12"), "image_url", ""),
      SetField(SetField(BaseRecord, "id", "ab12"), "image_url", get_image_path(f, "ab12")) }

\* The files the image_url fields of a tree name.
ReferencedPaths(d) ==
    { d[o[1]][o[2]]["image_url"] :
        o \in { p \in Files \X (1..(MaxRecords + MaxSyncRecords)) :
                  p[2] <= Len(d[p[1]]) /\ HasKey(d[p[1]][p[2]], "image_url") } } \ {""}

SyncLenChoices ==
    { lens \in [Files -> 0..MaxSyncRecords] :
        /\ SumLens(lens, Files) <= MaxSyncRecords
        /\ lens["s1/a.json"] >= lens["s2/a.json"] }

InitSyncTree ==
    /\ \E lens \in SyncLenChoices :
       \E rb \in [1..lens["b.json"] -> InitSyncRecords("b.json")] :
       \E r1 \in [1..lens["s1/a.json"] -> InitSyncRecords("s1/a.json")] :
       \E r2 \in [1..lens["s2/a.json"] -> InitSyncRecords("s2/a.json")] :
          disk = ("b.json" :> rb) @@ ("s1/a.json" :> r1) @@ ("s2/a.json" :> r2)
    /\ assets \in SUBSET ReferencedPaths(disk)

InitSync ==
    /\ InitSyncTree
    /\ cwd \in {"root", "scripts"}
    /\ SyncIdle
    /\ pc = "images"
    /\ json_files = <<>>
    /\ file_data_map = <<>>
    /\ id_registry = <<>>
    /\ registry_keys = <<>>
    /\ k = 1
    /\ i = 2
    /\ files_modified = {}
    /\ tree0 = [disk |-> disk, assets |-> assets]
    /\ fixes = <<>>
    /\ writes = [f \in Files |-> 0]

NextSync ==
    \/ StartImages \/ SkipItem \/ Describe \/ Generate \/ SaveAsset \/ UpdateItem
    \/ CloseFile \/ Terminate \/ RunAgain

\* process_images on an arbitrary tree, possibly terminated, then run again.
SpecSync == InitSync /\ [][NextSync]_vars

\* Lines 335-351: main runs ensure_unique_ids, clean_citations and
\* process_images in this order, once.
NextPipeline ==
    \/ LoadRegistry \/ FixOccurrence \/ SaveModified
    \/ CleanCitations
    \/ StartImages \/ SkipItem \/ Describe \/ Generate \/ SaveAsset \/ UpdateItem
    \/ CloseFile

\* main starts on a tree of at most MaxSyncRecords records.
InitPipelineTree ==
    /\ \E lens \in SyncLenChoices :
       \E rb \in [1..lens["b.json"] -> InitRecords("b.json")] :
       \E r1 \in [1..lens["s1/a.json"] -> InitRecords("s1/a.json")] :
       \E r2 \in [1..lens["s2/a.json"] -> InitRecords("s2/a.json")] :
          disk = ("b.json" :> rb) @@ ("s1/a.json" :> r1) @@ ("s2/a.json" :> r2)
    /\ assets \in SUBSET DerivedPaths(disk)

InitPipeline ==
    /\ InitPipelineTree
    /\ cwd = "root"
    /\ SyncIdle
    /\ pc = "start"
    /\ json_files = <<>>
    /\ file_data_map = <<>>
    /\ id_registry = <<>>
    /\ registry_keys = <<>>
    /\ k = 1
    /\ i = 2
    /\ files_modified = {}
    /\ tree0 = [disk |-> disk, assets |-> assets]
    /\ fixes = <<>>
    /\ writes = [f \in Files |-> 0]

SpecPipeline == InitPipeline /\ [][NextPipeline]_vars

\* A tree in which one file is unusable and the others hold at most
\* MaxSyncRecords records.
InitBadTree ==
    /\ \E bad \in Files : \E content \in {Malformed, NonArray} :
       \E lens \in { l \in [Files -> 0..MaxSyncRecords] :
                        SumLens(l, Files) <= MaxSyncRecords /\ l[bad] = 0 } :
       \E rb \in [1..lens["b.json"] -> InitSyncRecords("b.json")] :
       \E r1 \in [1..lens["s1/a.json"] -> InitSyncRecords("s1/a.json")] :
       \E r2 \in [1..lens["s2/a.json"] -> InitSyncRecords("s2/a.json")] :
          disk = [("b.json" :> rb) @@ ("s1/a.json" :> r1) @@ ("s2/a.json" :> r2)
                    EXCEPT ![bad] = content]
    /\ assets \in SUBSET DerivedPaths(disk)

InitBadFile ==
    /\ InitBadTree
    /\ cwd = "root"
    /\ SyncIdle
    /\ pc = "start"
    /\ json_files = <<>>
    /\ file_data_map = <<>>
    /\ id_registry = <<>>
    /\ registry_keys = <<>>
    /\ k = 1
    /\ i = 2
    /\ files_modified = {}
    /\ tree0 = [disk |-> disk, assets |-> assets]
    /\ fixes = <<>>
    /\ writes = [f \in Files |-> 0]

NextBadFile ==
    \/ LoadRegistry \/ FixOccurrence \/ SaveModified
    \/ CleanCitations
    \/ StartImages \/ SkipItem \/ Describe \/ Generate \/ SaveAsset \/ UpdateItem
    \/ CloseFile \/ IterateNonArray

\* main on a tree with one unusable file.
SpecBadFile == InitBadFile /\ [][NextBadFile]_vars

\* The file under dataset/ holds any records; the files of the
\* sub-directories are not listed by os.listdir.
InitNewsTree ==
    /\ \E n \in 0..(MaxSyncRecords + 1) :
       \E rb \in [1..n -> InitSyncRecords("b.json")] :
          disk = ("b.json" :> rb) @@ ("s1/a.json" :> <<>>) @@ ("s2/a.json" :> <<>>)
    /\ assets \in SUBSET ReferencedPaths(disk)

InitNews ==
    /\ InitNewsTree
    /\ cwd = "root"
    /\ SyncIdle
    /\ pc = "news_start"
    /\ json_files = <<>>
    /\ file_data_map = <<>>
    /\ id_registry = <<>>
    /\ registry_keys = <<>>
    /\ k = 1
    /\ i = 2
    /\ files_modified = {}
    /\ tree0 = [disk |-> disk, assets |-> assets]
    /\ fixes = <<>>
    /\ writes = [f \in Files |-> 0]

NextNews ==
    \/ StartNews \/ SkipItem \/ Describe \/ Generate \/ SaveAssetNews \/ UpdateItemNews
    \/ CloseFileNews \/ TerminateNews \/ RunAgainNews

\* generate_news_images.main, possibly terminated, then run again.
SpecNews == InitNews /\ [][NextNews]_vars

\* Records a file can hold when update_json starts: without an id, or with an
\* id and no image_url, the derived one, or another one with its prompt.
InitHelperRecords(f) ==
    { BaseRecord }
    \cup { SetField(BaseRecord, "id", d) : d \in TreeIdsOf(f) }
    \cup { SetField(SetField(BaseRecord, "id", d), "image_url", get_image_path(f, d)) :
             d \in TreeIdsOf(f) }
    \cup { SetField(SetField(SetField(BaseRecord, "id", d), "image_url",
                            get_image_path(f, "f00d")), "image_prompt", "a prompt") :
             d \in TreeIdsOf(f) }

\* At most MaxSyncRecords records in the file under dataset/, at most one in
\* a file of a sub-directory.
InitHelperTree ==
    /\ \E n \in 0..MaxSyncRecords : \E m \in 0..1 :
       \E rb \in [1..n -> InitHelperRecords("b.json")] :
       \E r1 \in [1..m -> InitHelperRecords("s1/a.json")] :
          disk = ("b.json" :> rb) @@ ("s1/a.json" :> r1) @@ ("s2/a.json" :> <<>>)
    /\ assets \in SUBSET DerivedPaths(disk)

InitHelper ==
    /\ InitHelperTree
    /\ cwd = "root"
    /\ SyncIdle
    /\ pc = "helper_start"
    /\ json_files = <<>>
    /\ file_data_map = <<>>
    /\ id_registry = <<>>
    /\ registry_keys = <<>>
    /\ k = 1
    /\ i = 2
    /\ files_modified = {}
    /\ tree0 = [disk |-> disk, assets |-> assets]
    /\ fixes = <<>>
    /\ writes = [f \in Files |-> 0]

NextHelper == StartHelper \/ UpdateJsonItem \/ CloseFileHelper \/ RunAgainHelper

\* update_json, run twice.
SpecHelper == InitHelper /\ [][NextHelper]_vars

NextResolver == LoadRegistry \/ FixOccurrence \/ SaveModified

\* One Collision Resolver pass on an arbitrary tree.
SpecResolver == InitResolver /\ [][NextResolver]_vars

(***************************************************************************)
(* Vocabulary of the properties.                                           *)
(***************************************************************************)
Positions(d) == { o \in Files \X (1..(MaxRecords + MaxSyncRecords)) : o[2] <= Len(d[o[1]]) }
RecAt(d, o) == d[o[1]][o[2]]
IdBearing(d) == { o \in Positions(d) : HasKey(RecAt(d, o), "id") }
FixSet == { fixes[n] : n \in DOMAIN fixes }

\* The occurrences of a lower-cased identifier in the tree the pass started on.
Occ0(key) == { o \in IdBearing(tree0.disk) : Lower(RecAt(tree0.disk, o)["id"]) = key }
CollidingKeys0 ==
    { key \in { Lower(RecAt(tree0.disk, o)["id"]) : o \in IdBearing(tree0.disk) } :
        Cardinality(Occ0(key)) > 1 }

\* images/<owning-file-basename>/<id>.png, spelled out.
DerivedUrl(o, id) ==
    "images/" \o (IF o[1] = "b.json" THEN "b" ELSE "a") \o "/" \o id \o ".png"

\* The records a Collision Resolver pass holds in memory: the records it
\* loaded, with its fixes, which are what it writes to the modified files.
Mem(o) == RecAt(file_data_map, o)

IdChanged(o) == Mem(o)["id"] # RecAt(tree0.disk, o)["id"]

\* A file after the pass: as it was, or holding the records of the pass, or
\* cut short by a write that failed.
AsItWas(f) == disk[f] = tree0.disk[f]
Written(f) == disk[f] = file_data_map[f]
CutShort(f) == disk[f] = Malformed

(***************************************************************************)
(* C1: after a Collision Resolver pass every two distinct records that     *)
(* carry an id have ids that differ case-insensitively; stated of the      *)
(* records the pass ends with in memory, which are the records it writes.  *)
(* The code draws each new id against the registry keys only (line 88) and *)
(* never adds a drawn id to the registry, so two draws of one pass can     *)
(* return the same token: this formula is violated.                        *)
(***************************************************************************)
C1_UniqueIdsAfterPass ==
    pc = "resolved" =>
        \A o1 \in IdBearing(file_data_map) : \A o2 \in IdBearing(file_data_map) :
            o1 # o2 => Lower(Mem(o1)["id"]) # Lower(Mem(o2)["id"])

(***************************************************************************)
(* C2: for every identifier with more than one occurrence, exactly one     *)
(* occurrence keeps its id, its file has the smallest base name among the  *)
(* occurrences, and every other occurrence has a new id.  The ids are      *)
(* those of the records the pass ends with, which a modified file holds    *)
(* when its write succeeded.                                               *)
(***************************************************************************)
C2_KeptHasSmallestBasename ==
    pc = "resolved" =>
        \A key \in CollidingKeys0 :
            \E o \in Occ0(key) :
                /\ ~IdChanged(o)
                /\ \A p \in Occ0(key) : BasenameLeq(Basename(o[1]), Basename(p[1]))
                /\ \A p \in Occ0(key) \ {o} : IdChanged(p)

\* The root file b.json, discovered first, lost its id to a file named a.json.
C2_Witness ==
    /\ pc = "resolved"
    /\ \E e \in FixSet :
         /\ Basename(e.filepath) = "b.json" /\ Basename(e.kept[1]) = "a.json"
         /\ Written(e.filepath)
         /\ RecAt(disk, <<e.filepath, e.idx>>)["id"] = e.new_id

(***************************************************************************)
(* C3: the canonical occurrence is left untouched by the pass: its record  *)
(* is unchanged and an asset that existed at its derived path still exists *)
(* there, for every placement of the colliding occurrences.                *)
(* Two occurrences with the same spelling in one file, or in files of one  *)
(* base name, share one derived path, and the code moves the asset away    *)
(* for the occurrence it reassigns: this formula is violated.              *)
(***************************************************************************)
C3_CanonicalUntouched ==
    pc = "resolved" =>
        \A e \in FixSet :
            /\ Mem(e.kept) = RecAt(tree0.disk, e.kept)
            /\ DerivedUrl(e.kept, RecAt(tree0.disk, e.kept)["id"]) \in tree0.assets
                 => DerivedUrl(e.kept, RecAt(tree0.disk, e.kept)["id"]) \in assets

(***************************************************************************)
(* C4: after the pass, for every reassigned record whose asset move        *)
(* succeeded, the asset is at images/<basename>/<new-id>.png and not at    *)
(* the old derived path, and an image_url the record carries is exactly    *)
(* that string.  The record is the one the pass ends with, which its file  *)
(* holds when the write of the file succeeded.                             *)
(***************************************************************************)
C4_MovedAssetCoupled ==
    pc = "resolved" =>
        \A e \in FixSet :
            e.move = "ok" =>
                LET o == <<e.filepath, e.idx>> IN
                /\ Mem(o)["id"] = e.new_id
                /\ DerivedUrl(o, e.new_id) \in assets
                /\ DerivedUrl(o, e.old_id) \notin assets
                /\ HasKey(Mem(o), "image_url")
                     => Mem(o)["image_url"] = DerivedUrl(o, e.new_id)
                /\ Written(e.filepath) => RecAt(disk, o) = Mem(o)

C4_Witness ==
    /\ pc = "resolved"
    /\ \E e \in FixSet :
         /\ e.move = "ok"
         /\ Written(e.filepath)
         /\ HasKey(RecAt(disk, <<e.filepath, e.idx>>), "image_url")
         /\ DerivedUrl(<<e.filepath, e.idx>>, e.old_id) \in tree0.assets

(***************************************************************************)
(* C5: a failed move does not abort the pass.  On the step of the failure  *)
(* the asset stays at the old path, the record's image_url is unchanged,   *)
(* its id is the new id and its file is marked for saving; at the end of   *)
(* the pass the record has the new id and its old image_url, its file was  *)
(* opened for writing once and holds the record when the write succeeded,  *)
(* and every non-canonical occurrence was reassigned.                      *)
(***************************************************************************)
C5_FailedMoveStep ==
    (fixes' # fixes /\ fixes'[Len(fixes')].move = "failed") =>
        LET e == fixes'[Len(fixes')]
            o == <<e.filepath, e.idx>>
        IN  /\ assets' = assets
            /\ DerivedUrl(o, e.old_id) \in assets'
            /\ pc' = "fix"
            /\ RecAt(file_data_map', o)["id"] = e.new_id
            /\ HasKey(RecAt(file_data_map', o), "image_url")
                 = HasKey(RecAt(file_data_map, o), "image_url")
            /\ HasKey(RecAt(file_data_map, o), "image_url")
                 => RecAt(file_data_map', o)["image_url"] = RecAt(file_data_map, o)["image_url"]
            /\ e.filepath \in files_modified'

C5_FailedMoveAtEnd ==
    pc = "resolved" =>
        /\ \A e \in FixSet :
             e.move = "failed" =>
                LET o == <<e.filepath, e.idx>> IN
                /\ Mem(o) = SetField(RecAt(tree0.disk, o), "id", e.new_id)
                /\ writes[e.filepath] = 1
                /\ Written(e.filepath) \/ AsItWas(e.filepath) \/ CutShort(e.filepath)
        /\ \A key \in CollidingKeys0 :
             Cardinality({ o \in Occ0(key) : IdChanged(o) }) = Cardinality(Occ0(key)) - 1

C5_FailedMoveContinues == [][C5_FailedMoveStep]_vars /\ []C5_FailedMoveAtEnd

\* A move failed for a record that carries an image_url, and the pass went on
\* to reassign another occurrence afterwards and finished.
C5_Witness ==
    /\ pc = "resolved"
    /\ \E n \in DOMAIN fixes :
         /\ fixes[n].move = "failed"
         /\ Written(fixes[n].filepath)
         /\ HasKey(RecAt(disk, <<fixes[n].filepath, fixes[n].idx>>), "image_url")
         /\ n < Len(fixes)


(***************************************************************************)
(* Vocabulary of the Asset Synchronizer properties.                        *)
(***************************************************************************)
\* needs_asset as the specification words it: image_url missing or empty, or
\* the file it references under the dataset root does not exist.
NeedsAsset(item) ==
    \/ "image_url" \notin DOMAIN item
    \/ item["image_url"] = ""
    \/ item["image_url"] \notin assets

\* A record is being visited by process_images.
Visiting == pc = "sync" /\ stage = "visit" /\ ridx <= Len(news_items)

\* The step just taken is a capability call that failed.
CapabilityFailed(step) ==
    \/ step.what = "describe" /\ step.result \in {"", PyNone}
    \/ step.what = "generate" /\ step.result \in {"", PyNone}

(***************************************************************************)
(* C6: after a Collision Resolver pass in which the asset move failed for  *)
(* a reassigned record that carries an image_url, and which persisted the  *)
(* new id, the following Asset Synchronizer pass finds the record in need  *)
(* of an asset and calls describe for it rather than skipping it.          *)
(* After the failed move the asset is still at the old path, which is the  *)
(* path image_url names, so image_exists holds and the record is skipped:  *)
(* this formula is violated.                                               *)
(***************************************************************************)
C6_FailedMoveReconciled ==
    \A e \in FixSet :
        ( /\ e.move = "failed"
          /\ pc \in {"sync", "synced"}
          /\ last.pos = <<e.filepath, e.idx>>
          /\ last.what \in {"skip", "describe"}
          /\ IsList(disk[e.filepath])
          /\ HasKey(RecAt(disk, last.pos), "image_url")
          /\ RecAt(disk, last.pos)["id"] = e.new_id )
        => last.what = "describe"

(***************************************************************************)
(* C7: process_images writes the owning file after each updated record, so *)
(* whenever the process is terminated at most one record has its asset     *)
(* file written without its update being in the persisted JSON.            *)
(* process_images writes a file once, after its last record (lines         *)
(* 328-330): this formula is violated.                                     *)
(***************************************************************************)
C7_AtMostOneUnpersisted ==
    pc = "crashed" => Cardinality(unsaved) <= 1

(***************************************************************************)
(* C8: in every pass, a re-run after a termination included, a visited     *)
(* record is skipped when its image_url names an existing file and         *)
(* describe is called for it otherwise; generate is called only for a      *)
(* record that needs an asset.                                             *)
(***************************************************************************)
C8_Step ==
    /\ (Visiting /\ pc' = "sync") =>
          /\ last'.pos = Here
          /\ NeedsAsset(news_items[ridx]) => last'.what = "describe"
          /\ ~NeedsAsset(news_items[ridx]) => last'.what = "skip"
    /\ (last' # last /\ last'.what \in {"describe", "generate"}) =>
          /\ last'.pos = Here
          /\ NeedsAsset(news_items[ridx])
    /\ (last' # last /\ last'.what = "skip") =>
          /\ last'.pos = Here
          /\ ~NeedsAsset(news_items[ridx])

C8_CalledIffNeedsAsset == [][C8_Step]_vars

\* The second run, after a termination: describe is called for a record whose
\* asset the first run wrote without persisting image_url, after a record
\* with an existing image was skipped.
C8_Witness ==
    /\ run = "second" /\ first_run = "terminated"
    /\ last.what = "describe"
    /\ last.pos[2] = 2
    /\ ~NeedsAsset(RecAt(disk, <<last.pos[1], 1>>))
    /\ HasKey(RecAt(disk, last.pos), "id")
    /\ ~HasKey(RecAt(disk, last.pos), "image_url")
    /\ get_image_path(last.pos[1], RecAt(disk, last.pos)["id"]) \in assets

(***************************************************************************)
(* C9: when process_images is run twice with no change in between and the  *)
(* first run completed with every call succeeding, the second run makes no *)
(* capability call, writes no asset and writes no dataset file.            *)
(* save_image_locally returns the path relative to <cwd>/dataset (line     *)
(* 241); started from another directory than the repository root the       *)
(* stored image_url names no file under the dataset root and the second    *)
(* run generates everything again: this formula is violated.               *)
(***************************************************************************)
C9_SecondRunIdle ==
    (run = "second" /\ first_run = "completed, every step succeeded"
        /\ pc \in {"sync", "synced"}) =>
        /\ ~tally.called
        /\ ~tally.asset
        /\ \A f \in Files : writes[f] = 0

(***************************************************************************)
(* C10: when describe fails (error or empty result) or generate fails      *)
(* (no attempt gets status 200, or the body is empty), the record is not   *)
(* modified, no asset is written, no dataset file is written, the file is  *)
(* not marked for saving on account of the record, and the pass goes on to *)
(* the next record.                                                        *)
(***************************************************************************)
C10_Step ==
    (last' # last /\ CapabilityFailed(last')) =>
        /\ news_items' = news_items
        /\ assets' = assets
        /\ disk' = disk
        /\ writes' = writes
        /\ needs_save' = needs_save
        /\ pc' = "sync"
        /\ fidx' = fidx
        /\ ridx' = ridx + 1
        /\ stage' = "visit"

C10_FailureLeavesRecord == [][C10_Step]_vars

\* generate failed for the first record of a file and a second record is
\* visited next.
C10_Witness ==
    /\ pc = "sync"
    /\ last.what = "generate" /\ last.result = PyNone
    /\ last.pos[2] = 1
    /\ ridx = 2 /\ stage = "visit" /\ ridx <= Len(news_items)
    /\ news_items = disk[last.pos[1]]

(***************************************************************************)
(* C11: a record for which a step of the Asset Synchronizer failed, the    *)
(* write of the asset file included, is persisted after the run exactly as *)
(* it was before the run, without an id if it had none.                    *)
(* The id minted at line 309 is put into the record before the asset is    *)
(* written and stays there when the write fails; the file is written when  *)
(* another of its records was updated: this formula is violated.           *)
(***************************************************************************)
C11_FailureLeavesNoTrace ==
    pc = "synced" =>
        \A o \in tally.failed : RecAt(disk, o) = RecAt(tree0.disk, o)

(***************************************************************************)
(* C12: a record goes through MissingAsset, Prompted, Generated, Saved,    *)
(* Synced in this order: generate is called only after describe returned a *)
(* non-empty prompt for the record, an asset file is written only after    *)
(* generate returned bytes, image_url and image_prompt are set only after  *)
(* the asset file was written, and the dataset file is written after that; *)
(* so every persisted record whose image_url the synchronizer set names an *)
(* asset file that exists under the dataset root.                          *)
(* The order holds.  The value put in image_url is relative to             *)
(* <cwd>/dataset (line 241), so started outside the repository root the    *)
(* persisted image_url names no file under the dataset root: this formula  *)
(* is violated.                                                            *)
(***************************************************************************)
C12_Step ==
    /\ (last' # last /\ last'.what = "generate") =>
          /\ last.what = "describe" /\ last.pos = last'.pos
          /\ last.result \notin {"", PyNone}
          /\ image_prompt = last.result
    /\ (assets' # assets \/ (last' # last /\ last'.what = "save")) =>
          /\ last.what = "generate" /\ last.pos = last'.pos
          /\ last.result = "bytes"
          /\ last'.what = "save"
    /\ (pc = "sync" /\ pc' = "sync" /\ fidx' = fidx /\ news_items' # news_items
          /\ last'.what # "save") =>
          /\ last.what = "save" /\ last.result = "ok" /\ last.pos = last'.pos
          /\ last'.what = "update"
          /\ get_image_path(Dataset_file, news_items[ridx]["id"]) \in assets
    /\ disk' # disk =>
          /\ stage = "visit" /\ ridx > Len(news_items) /\ needs_save
          /\ last.what \in {"skip", "describe", "generate", "save", "update"}
          /\ \/ disk' = [disk EXCEPT ![Dataset_file] = news_items]
             \/ disk' = [disk EXCEPT ![Dataset_file] = Malformed]

C12_PersistedUrlExists ==
    \A o \in Positions(disk) :
        HasKey(RecAt(disk, o), "image_prompt") => RecAt(disk, o)["image_url"] \in assets

C12_OrderAndPersistedAsset == [][C12_Step]_vars /\ []C12_PersistedUrlExists

(***************************************************************************)
(* C13: generate_image makes at most 5 attempts, returns the bytes of the  *)
(* first successful attempt without a further attempt, sleeps 1, 2, 4 and  *)
(* 8 seconds after the failed attempts 1 to 4 and not after the 5th, and   *)
(* returns None after 5 failed attempts; process_images then leaves the    *)
(* record and visits the next one.                                         *)
(***************************************************************************)
C13_Backoff(n) == [m \in 1..n |-> 2 ^ (m - 1)]

C13_RetryPolicy ==
    last.what = "generate" =>
        /\ last.attempts \in 1..5
        /\ last.result \in {"bytes", ""} => last.waits = C13_Backoff(last.attempts - 1)
        /\ last.result = "bytes" => stage = "generated" /\ Here = last.pos
        /\ last.result = PyNone =>
              /\ last.attempts = 5
              /\ last.waits = <<1, 2, 4, 8>>
        /\ last.result \in {"", PyNone} =>
              /\ pc = "sync" /\ stage = "visit"
              /\ Dataset_file = last.pos[1] /\ ridx = last.pos[2] + 1
        /\ \A outcomes \in AttemptOutcomes :
              LET r == generate_image(outcomes) IN
              /\ r.ok <=> \E n \in 1..5 : outcomes[n]
              /\ r.ok => /\ outcomes[r.attempts]
                         /\ \A n \in 1..(r.attempts - 1) : ~outcomes[n]
                         /\ r.slept = C13_Backoff(r.attempts - 1)
              /\ ~r.ok => r.attempts = 5 /\ r.slept = <<1, 2, 4, 8>>

\* The fifth attempt succeeded, after sleeps of 1, 2, 4 and 8 seconds.
C13_Witness ==
    /\ last.what = "generate" /\ last.result = "bytes"
    /\ last.attempts = 5 /\ last.waits = <<1, 2, 4, 8>>
    /\ stage = "generated"

(***************************************************************************)
(* C14: an id minted by the Asset Synchronizer does not collide, case      *)
(* ignored, with an id present in the dataset: when the ids were unique    *)
(* before the pass they are unique after it.                               *)
(* Line 309 takes the value of generate_short_id as it comes, with no look *)
(* at the ids of the dataset: this formula is violated.                    *)
(***************************************************************************)
UniqueIds(d) ==
    \A o1 \in Positions(d) : \A o2 \in Positions(d) :
        (o1 # o2 /\ ~MissingId(RecAt(d, o1)) /\ ~MissingId(RecAt(d, o2)))
            => Lower(RecAt(d, o1)["id"]) # Lower(RecAt(d, o2)["id"])

C14_MintedIdIsFresh ==
    (pc = "synced" /\ UniqueIds(tree0.disk)) => UniqueIds(disk)

(***************************************************************************)
(* C15: a dataset file that is not JSON, or whose JSON value is not an     *)
(* array, is skipped by the Collision Resolver and by the Asset            *)
(* Synchronizer without being modified, the other files are still          *)
(* processed, and the run does not fail.                                   *)
(* process_images has no test of the loaded value: on a value that is not  *)
(* a list the loop over its items raises TypeError, the run ends there and *)
(* the files that follow are not processed: this formula is violated.      *)
(***************************************************************************)
BadFiles == { f \in Files : ~IsList(tree0.disk[f]) }

C15_BadFileSkipped ==
    /\ ~(pc = "failed" /\ last.what = "iterate")
    /\ \A f \in BadFiles : disk[f] = tree0.disk[f] /\ writes[f] = 0
    /\ pc \in {"images", "sync", "synced"} =>
          \A key \in DOMAIN id_registry : Len(id_registry[key]) > 1 => fixes # <<>>
    /\ pc = "synced" =>
          \A f \in Files \ BadFiles : \A n \in DOMAIN disk[f] :
              NeedsAsset(disk[f][n]) => <<f, n>> \in tally.failed

(***************************************************************************)
(* C16: in a Collision Resolver pass no file is written before every       *)
(* identifier is resolved; at the end a file with at least one mutated     *)
(* record has been opened for writing exactly once, however many of its    *)
(* records were mutated, and holds the records of the pass when the write  *)
(* succeeded; a file with no mutated record has not been written.  A write *)
(* that fails is reported and passed over (save_json, lines 32-33): the    *)
(* file is then as it was or cut short.                                    *)
(***************************************************************************)
MutatedFiles == { e.filepath : e \in FixSet }

C16_WrittenOnceAtEnd ==
    /\ pc \in {"start", "fix"} =>
          /\ disk = tree0.disk
          /\ \A f \in Files : writes[f] = 0
    /\ pc = "resolved" =>
          /\ k > Len(registry_keys)
          /\ \A f \in Files : writes[f] = IF f \in MutatedFiles THEN 1 ELSE 0
          /\ \A f \in Files \ MutatedFiles : AsItWas(f)
          /\ \A f \in MutatedFiles :
                /\ Written(f) \/ AsItWas(f) \/ CutShort(f)
                /\ file_data_map[f] # tree0.disk[f]

\* Two records of one file were mutated and the file was written once, with
\* success, while another file that holds a record was not written.
C16_Witness ==
    /\ pc = "resolved"
    /\ \E f \in Files : \E g \in Files :
         /\ Cardinality({ e \in FixSet : e.filepath = f }) = 2
         /\ writes[f] = 1 /\ Written(f)
         /\ g # f /\ Len(disk[g]) > 0 /\ writes[g] = 0

(***************************************************************************)
(* C17: a Collision Resolver pass keeps the number and the order of the    *)
(* records of every file and the set of fields of every record; it changes *)
(* no field other than id and image_url; and a record it changes carries a *)
(* colliding identifier of which another occurrence, in a file whose base  *)
(* name is not larger, is unchanged.  Records without an id, records with  *)
(* a non-colliding id and canonical occurrences are unchanged.  The        *)
(* records are those the pass ends with; a file holds them when its write  *)
(* succeeded and is as it was, or cut short, when its write failed.        *)
(***************************************************************************)
Unchanged(o) == Mem(o) = RecAt(tree0.disk, o)

C17_OnlyIdAndUrlChange ==
    pc = "resolved" =>
        /\ \A f \in Files : Len(file_data_map[f]) = Len(tree0.disk[f])
        /\ \A o \in Positions(tree0.disk) :
              LET old == RecAt(tree0.disk, o)
                  new == Mem(o)
              IN  /\ DOMAIN new = DOMAIN old
                  /\ \A key \in DOMAIN old \ {"id", "image_url"} : new[key] = old[key]
                  /\ ~HasKey(old, "id") => new = old
                  /\ (HasKey(old, "id") /\ Cardinality(Occ0(Lower(old["id"]))) = 1) => new = old
                  /\ new # old =>
                        \E p \in Occ0(Lower(old["id"])) \ {o} :
                            /\ Unchanged(p)
                            /\ BasenameLeq(Basename(p[1]), Basename(o[1]))
        /\ \A e \in FixSet : Unchanged(e.kept)
        /\ \A f \in Files : Written(f) \/ AsItWas(f) \/ CutShort(f)
        /\ \A f \in Files : CutShort(f) => f \in files_modified

\* A reassigned record whose image_url was rewritten, in a file that also
\* holds a record without an id and whose write succeeded.
C17_Witness ==
    /\ pc = "resolved"
    /\ \E e \in FixSet :
         /\ e.move = "ok"
         /\ Written(e.filepath)
         /\ HasKey(RecAt(disk, <<e.filepath, e.idx>>), "image_url")
         /\ RecAt(disk, <<e.filepath, e.idx>>)["image_url"]
              # RecAt(tree0.disk, <<e.filepath, e.idx>>)["image_url"]
         /\ \E n \in DOMAIN disk[e.filepath] : ~HasKey(disk[e.filepath][n], "id")

(***************************************************************************)
(* C18: in main the Collision Resolver pass, its file writes included, is  *)
(* complete before the Asset Synchronizer calls a capability or writes an  *)
(* asset, and the resolver does nothing afterwards; an id under which an   *)
(* asset may have been generated is not replaced later in the run.  Each   *)
(* modified file was opened for writing once by then, and holds the        *)
(* records of the resolver unless that write failed.                       *)
(***************************************************************************)
SyncActs == last' # last \/ tally' # tally \/ unsaved' # unsaved

C18_Step ==
    /\ SyncActs => pc \in {"images", "sync"} /\ pc' \in {"sync", "synced", "failed", "crashed"}
    /\ (pc # "sync" /\ pc' = "sync") =>
          /\ pc = "images"
          /\ k > Len(registry_keys)
          /\ \A f \in files_modified :
                writes[f] = 1 /\ (Written(f) \/ AsItWas(f) \/ CutShort(f))
          /\ \A f \in Files \ files_modified : writes[f] = 0 /\ AsItWas(f)
          /\ \A f \in Files : \A n \in DOMAIN disk[f] :
                ~HasKey(disk[f][n], "image_prompt")
    /\ pc \in {"images", "sync", "synced"} =>
          /\ fixes' = fixes
          /\ file_data_map' = file_data_map
          /\ files_modified' = files_modified
          /\ \A o \in Positions(disk) :
                (~MissingId(RecAt(disk, o)) /\ disk'[o[1]] # Malformed) =>
                    /\ o \in Positions(disk')
                    /\ HasKey(RecAt(disk', o), "id")
                    /\ RecAt(disk', o)["id"] = RecAt(disk, o)["id"]
    /\ pc \in {"start", "fix", "resolved"} =>
          /\ last' = NoStep /\ tally' = NoTally
          /\ assets' \subseteq DerivedPaths(tree0.disk) \cup DerivedPaths(file_data_map')

C18_ResolverBeforeSynchronizer == [][C18_Step]_vars

\* The synchronizer wrote the asset of a record the resolver had reassigned,
\* under the new id.
C18_Witness ==
    /\ pc = "sync"
    /\ last.what = "save" /\ last.result = "ok"
    /\ \E e \in FixSet :
         /\ last.pos = <<e.filepath, e.idx>>
         /\ news_items[e.idx]["id"] = e.new_id
         /\ get_image_path(e.filepath, e.new_id) \in assets

(***************************************************************************)
(* C19: which occurrence of a colliding identifier is kept does not depend *)
(* on the order in which glob discovered the files: the occurrence this    *)
(* pass kept is the one the pass keeps under every discovery order of the  *)
(* same tree.                                                              *)
(* The sort of line 77 compares base names only and is stable, so between  *)
(* files of one base name in different directories the occurrence          *)
(* discovered first is kept: this formula is violated.                     *)
(***************************************************************************)
KeptUnder(order, key) ==
    LET map == [f \in { g \in Files : IsList(tree0.disk[g]) } |-> tree0.disk[f]]
        occ == TreeOccurrences(order, map, Len(order))
    IN  SortByBasename(BuildRegistry(map, occ)[key])[1]

C19_KeptIndependentOfDiscovery ==
    pc = "resolved" =>
        \A e \in FixSet : \A order \in GlobOrders :
            KeptUnder(order, Lower(e.old_id)) = e.kept

(***************************************************************************)
(* C20: generate_news_images.main writes the dataset file after each       *)
(* updated record, before the next record is visited; so whenever the      *)
(* first run stops at most one record, the one in flight, has its asset    *)
(* written without its update being persisted, and the run that follows a  *)
(* termination calls no capability for a record whose update was           *)
(* persisted: of the records completed it regenerates at most that one.    *)
(* The file is written after each record.  The write empties the file and  *)
(* then fills it (lines 177-178): a run terminated in between leaves the   *)
(* file cut short, and the updates of all the records completed before are *)
(* lost with it: this formula is violated.                                 *)
(***************************************************************************)
C20_Step ==
    (last' # last /\ last'.what = "update" /\ last'.result = "written") =>
        /\ disk'[Dataset_file] = news_items'
        /\ writes'[Dataset_file] = writes[Dataset_file] + 1
        /\ HasKey(RecAt(disk', Here), "image_url")
        /\ HasKey(RecAt(disk', Here), "image_prompt")
        /\ RecAt(disk', Here)["image_url"] \in assets'
        /\ ridx' = ridx + 1 /\ stage' = "visit"

C20_AtMostInFlight ==
    /\ pc \in {"news", "news_done", "news_crashed", "news_start"} => Cardinality(unsaved) <= 1
    /\ (run = "first" /\ pc = "news") => (unsaved = {} \/ (unsaved = {Here} /\ stage = "saved"))
    /\ (run = "first" /\ pc = "news_done") => unsaved = {}
    /\ (run = "second" /\ last.what \in {"describe", "generate"}) =>
          ~HasKey(RecAt(tree0.disk, last.pos), "image_prompt")

C20_WrittenAfterEachRecord == [][C20_Step]_vars /\ []C20_AtMostInFlight

(***************************************************************************)
(* C21: an Asset Synchronizer pass changes no record that needed no asset, *)
(* changes no non-empty id, removes and reorders no record, changes on a   *)
(* record it synced only image_url and image_prompt, and id when it was    *)
(* missing, and sets image_url to images/<file_basename>/<id>.png.         *)
(* The frame holds.  The image_url written is the path relative to         *)
(* <cwd>/dataset (line 241), which is ../../dataset/images/... when the    *)
(* script is started from scripts/: this formula is violated.              *)
(***************************************************************************)
NeededAsset0(item) ==
    \/ ~HasKey(item, "image_url")
    \/ item["image_url"] = ""
    \/ item["image_url"] \notin tree0.assets

C21_Frame(o) ==
    LET old == RecAt(tree0.disk, o)
        new == RecAt(disk, o)
    IN  /\ ~NeededAsset0(old) => new = old
        /\ ~MissingId(old) => (HasKey(new, "id") /\ new["id"] = old["id"])
        /\ DOMAIN old \subseteq DOMAIN new
        /\ DOMAIN new \subseteq DOMAIN old \cup {"id", "image_url", "image_prompt"}
        /\ \A key \in DOMAIN old \ {"id", "image_url", "image_prompt"} : new[key] = old[key]

C21_DerivedUrl(o) ==
    LET old == RecAt(tree0.disk, o)
        new == RecAt(disk, o)
    IN  (HasKey(new, "image_url") /\ (~HasKey(old, "image_url") \/ new["image_url"] # old["image_url"]))
            => /\ HasKey(new, "id") /\ HasKey(new, "image_prompt")
               /\ new["image_url"] = DerivedUrl(o, new["id"])

C21_SyncFrame ==
    pc \in {"sync", "synced", "crashed"} =>
        /\ \A f \in Files : Len(disk[f]) = Len(tree0.disk[f])
        /\ \A o \in Positions(tree0.disk) : C21_Frame(o) /\ C21_DerivedUrl(o)

(***************************************************************************)
(* C22: after one run of update_json every record with an id, in a file    *)
(* the run lists (the files directly under the dataset root), whose asset  *)
(* exists at images/<file_basename>/<id>.png has that path as image_url,   *)
(* and every record whose asset does not exist there is as it was; a       *)
(* second run with no change in between updates no record and writes no    *)
(* file.  Files in sub-directories are not listed and stay as they are.    *)
(***************************************************************************)
C22_Coupled(o) ==
    LET old == RecAt(tree0.disk, o)
        new == RecAt(disk, o)
        has == HasKey(old, "id") /\ DerivedUrl(o, old["id"]) \in assets
    IN  /\ has => /\ HasKey(new, "image_url")
                  /\ new["image_url"] = DerivedUrl(o, old["id"])
                  /\ new["id"] = old["id"]
        /\ ~has => new = old

C22_CoupledAndIdempotent ==
    /\ assets = tree0.assets
    /\ (pc = "helper_done" /\ run = "first") =>
          /\ \A f \in Files : Len(disk[f]) = Len(tree0.disk[f])
          /\ \A o \in Positions(tree0.disk) : o[1] \in RootFiles => C22_Coupled(o)
          /\ \A f \in SubFiles : disk[f] = tree0.disk[f] /\ writes[f] = 0
    /\ (run = "second" /\ pc # "helper_start") =>
          /\ disk = tree0.disk
          /\ \A f \in Files : writes[f] = 0
          /\ last.result # "updated"
          /\ pc = "helper" => news_items = disk[Dataset_file] /\ ~needs_save

\* The second run ended after a first run that gave an image_url to one
\* record and replaced the image_url of another.
C22_Witness ==
    /\ run = "second" /\ pc = "helper_done"
    /\ Len(disk["b.json"]) = 2
    /\ \A n \in 1..2 : /\ HasKey(disk["b.json"][n], "image_prompt")
                        /\ disk["b.json"][n]["image_prompt"] = AgentPrompt
    /\ disk["b.json"][1]["id"] # disk["b.json"][2]["id"]

====
